---- MODULE Spec2Model ----
(***************************************************************************)
(* Model of speakmcp-rs (src/speakmcp-rs/src/main.rs): the platform probe, *)
(* the event normalizer and the command dispatcher of the platform helper. *)
(*                                                                         *)
(* Rust vectors are 0-based, TLA+ sequences 1-based: args.get(0) is        *)
(* args[1], args.get(1) is args[2], args[2] of the source is args[3].      *)
(* Strings whose characters matter (XDG_SESSION_TYPE) are sequences of     *)
(* one-character strings.                                                  *)
(***************************************************************************)
EXTENDS Integers, Sequences, FiniteSets, TLC

\* ------------------------------------------------------------------ bounds
MaxExtraArgs == 2   \* arguments after the verb
MaxEvents == 2      \* native events the hook provider delivers in one run

\* ------------------------------------------------------- environment values
\* std::env::var(name) is Ok(value) only when the variable is present AND its
\* value is valid Unicode; it is Err for an absent variable and for a present
\* variable whose value is not valid Unicode.
Absent == [state |-> "absent", val |-> <<>>]
NotUnicode == [state |-> "not_unicode", val |-> <<>>]
Val(s) == [state |-> "unicode", val |-> s]

var_is_ok(v) == v.state = "unicode"
var_is_err(v) == ~var_is_ok(v)

\* present in the process environment, whatever the value
IsSet(v) == v.state # "absent"

LowerChar(c) ==
    CASE c = "W" -> "w" [] c = "A" -> "a" [] c = "Y" -> "y"
      [] c = "L" -> "l" [] c = "N" -> "n" [] c = "D" -> "d"
      [] c = "X" -> "x" [] OTHER -> c

UpperChar(c) ==
    CASE c = "w" -> "W" [] c = "a" -> "A" [] c = "y" -> "Y"
      [] c = "l" -> "L" [] c = "n" -> "N" [] c = "d" -> "D"
      [] c = "x" -> "X" [] OTHER -> c

to_lowercase(s) == [i \in DOMAIN s |-> LowerChar(s[i])]

wayland == <<"w", "a", "y", "l", "a", "n", "d">>

SessionTypes ==
    { wayland,
      <<"W", "a", "y", "l", "a", "n", "d">>,
      <<"W", "A", "Y", "L", "A", "N", "D">>,
      <<"x", "1", "1">>,
      <<"w", "a", "y", "l", "a", "n", "d", " ">> }

WaylandDisplayVals == {Absent, NotUnicode, Val(<<"wayland-0">>)}
DisplayVals == {Absent, NotUnicode, Val(<<":0">>)}
SessionTypeVals == {Absent, NotUnicode} \cup {Val(s) : s \in SessionTypes}

NoEnv == [WAYLAND_DISPLAY |-> Absent, DISPLAY |-> Absent, XDG_SESSION_TYPE |-> Absent]

Envs == [WAYLAND_DISPLAY : WaylandDisplayVals,
         DISPLAY : DisplayVals,
         XDG_SESSION_TYPE : SessionTypeVals]

OSes == {"linux", "macos", "windows", "other"}

\* ------------------------------------------------------------ PlatformError
NoDetail == <<>>
PErr(k) == [type |-> "PlatformError", kind |-> k, detail |-> NoDetail]
AccessibilityDenied == PErr("AccessibilityDenied")
WaylandNotSupported == PErr("WaylandNotSupported")
X11NotAvailable == PErr("X11NotAvailable")
PlatformNotSupported == PErr("PlatformNotSupported")
InitializationFailed(msg) == [type |-> "PlatformError", kind |-> "InitializationFailed", detail |-> msg]
Ok == [type |-> "Ok", kind |-> "Ok", detail |-> NoDetail]

\* errors of the external collaborators
ProviderDetails == {<<"no connection">>, <<"denied">>}
NewConError(d) == [type |-> "enigo::NewConError", kind |-> "NewConError", detail |-> d]
InputError(d) == [type |-> "enigo::InputError", kind |-> "InputError", detail |-> d]
ListenError(d) == [type |-> "rdev::ListenError", kind |-> "ListenError", detail |-> d]
\* format!("Listen error: {:?}", e).into()
ListenErrorString(d) == [type |-> "String", kind |-> "Listen error: ", detail |-> d]

\* impl Display for PlatformError; the collaborators' errors display their detail
fmt(e) ==
    CASE e.type = "PlatformError" /\ e.kind = "AccessibilityDenied" ->
            <<"macOS Accessibility permissions required">>
      [] e.type = "PlatformError" /\ e.kind = "WaylandNotSupported" ->
            <<"Wayland is not supported, X11 session required">>
      [] e.type = "PlatformError" /\ e.kind = "X11NotAvailable" ->
            <<"X11 display server not available">>
      [] e.type = "PlatformError" /\ e.kind = "PlatformNotSupported" ->
            <<"Platform not supported">>
      [] e.type = "PlatformError" /\ e.kind = "InitializationFailed" ->
            <<"Platform initialization failed: ">> \o e.detail
      [] e.type = "String" -> <<e.kind>> \o e.detail
      [] OTHER -> e.detail

\* ------------------------------------------------------------ PlatformProbe
check_macos_accessibility == Ok

check_linux_display_server(e) ==
    IF var_is_ok(e.WAYLAND_DISPLAY)
          /\ var_is_ok(e.XDG_SESSION_TYPE)
          /\ to_lowercase(e.XDG_SESSION_TYPE.val) = wayland
    THEN WaylandNotSupported
    ELSE IF var_is_ok(e.WAYLAND_DISPLAY) /\ var_is_err(e.DISPLAY)
    THEN WaylandNotSupported
    ELSE IF var_is_err(e.DISPLAY)
    THEN X11NotAvailable
    ELSE Ok

check_platform_requirements(o, e) ==
    CASE o = "macos" -> check_macos_accessibility
      [] o = "linux" -> check_linux_display_server(e)
      [] o = "windows" -> Ok
      [] OTHER -> PlatformNotSupported

get_platform_info(o, e) ==
    CASE o = "windows" -> "Windows"
      [] o = "macos" -> "macOS"
      [] o = "linux" ->
            IF var_is_ok(e.WAYLAND_DISPLAY) THEN "Linux (Wayland)"
            ELSE IF var_is_ok(e.DISPLAY) THEN "Linux (X11)"
            ELSE "Linux (Unknown)"
      [] OTHER -> "Unsupported"

\* ------------------------------------------------------------ native events
None == <<>>
Some(v) == <<v>>

\* rdev::Key and rdev::Button values; Unknown carries a raw code
KeyA == [variant |-> "KeyA", code |-> ""]
Return == [variant |-> "Return", code |-> ""]
UnknownKey(c) == [variant |-> "Unknown", code |-> c]
Left == [variant |-> "Left", code |-> ""]
UnknownButton(c) == [variant |-> "Unknown", code |-> c]

\* format!("{:?}", key)
debug_fmt(k) ==
    IF k.variant = "Unknown" THEN <<"Unknown(", k.code, ")">> ELSE <<k.variant>>

KeyPress(k) == [kind |-> "KeyPress", key |-> k]
KeyRelease(k) == [kind |-> "KeyRelease", key |-> k]
MouseMove(px, py) == [kind |-> "MouseMove", x |-> px, y |-> py]
ButtonPress(b) == [kind |-> "ButtonPress", key |-> b]
ButtonRelease(b) == [kind |-> "ButtonRelease", key |-> b]
Wheel(dx, dy) == [kind |-> "Wheel", delta_x |-> dx, delta_y |-> dy]

EventKinds == {"KeyPress", "KeyRelease", "MouseMove", "ButtonPress", "ButtonRelease", "Wheel"}

Keys == {KeyA, Return, UnknownKey("42")}
Buttons == {Left, UnknownButton("4")}
Coords == {0, 7}
Deltas == {-1, 1}

EventTypes ==
    {KeyPress(k) : k \in Keys} \cup {KeyRelease(k) : k \in Keys}
      \cup {MouseMove(c[1], c[2]) : c \in Coords \X Coords}
      \cup {ButtonPress(b) : b \in Buttons} \cup {ButtonRelease(b) : b \in Buttons}
      \cup {Wheel(d[1], d[2]) : d \in Deltas \X Deltas}

Event(t, n, et) == [time |-> t, name |-> n, event_type |-> et]

\* every native event shape, the inputs of the normalizer
NativeEvents ==
    {Event(t, n, et) : t \in {1, 2}, n \in {None, Some("a")}, et \in EventTypes}

\* the events the hook provider delivers in the model of listen
HookEvents ==
    { Event(1, Some("a"), KeyPress(KeyA)), Event(2, None, KeyPress(UnknownKey("42"))),
      Event(2, Some("a"), KeyRelease(KeyA)), Event(1, None, KeyRelease(Return)),
      Event(1, None, MouseMove(0, 7)), Event(1, None, ButtonPress(Left)),
      Event(2, None, ButtonRelease(Left)), Event(1, None, Wheel(-1, 1)) }

\* ------------------------------------------------------------ EventNormalizer
RdevEvent(ty, n, t, d) == [event_type |-> ty, name |-> n, time |-> t, data |-> d]

deal_event_to_json_release_as_press(event) ==
    LET et == event.event_type
        data == CASE et.kind \in {"KeyPress", "KeyRelease", "ButtonPress", "ButtonRelease"} ->
                        [key |-> debug_fmt(et.key)]
                  [] et.kind = "MouseMove" -> [x |-> et.x, y |-> et.y]
                  [] et.kind = "Wheel" -> [delta_x |-> et.delta_x, delta_y |-> et.delta_y]
    IN  RdevEvent(IF et.kind = "KeyRelease" THEN "KeyPress" ELSE et.kind,
                  event.name, event.time, data)

deal_event_to_json(event) ==
    LET et == event.event_type
        data == CASE et.kind = "KeyPress" -> [key |-> debug_fmt(et.key)]
                  [] et.kind = "KeyRelease" -> [key |-> debug_fmt(et.key)]
                  [] et.kind = "MouseMove" -> [x |-> et.x, y |-> et.y]
                  [] et.kind = "ButtonPress" -> [key |-> debug_fmt(et.key)]
                  [] et.kind = "ButtonRelease" -> [key |-> debug_fmt(et.key)]
                  [] et.kind = "Wheel" -> [delta_x |-> et.delta_x, delta_y |-> et.delta_y]
    IN  RdevEvent(et.kind, event.name, event.time, data)

\* serde_json::to_string(&RdevEvent): the members in declaration order; a
\* SystemTime serializes as its distance from the epoch
to_string(r) ==
    << <<"event_type", r.event_type>>,
       <<"name", r.name>>,
       <<"time", [secs_since_epoch |-> r.time, nanos_since_epoch |-> 0]>>,
       <<"data", r.data>> >>

\* the closure passed to rdev::listen forwards these kinds only
forwarded_press_only(kind) == kind = "KeyPress"
forwarded(kind) == kind \in {"KeyPress", "KeyRelease"}

\* ------------------------------------------------------------ command line
\* an argument as the OS hands it over: its text, or bytes that are not Unicode
Arg(str) == [unicode |-> TRUE, s |-> str]
BadArg == [unicode |-> FALSE, s |-> ""]

ProgramNames == {Arg("speakmcp-rs")}
Verbs == {Arg("listen"), Arg("write"), Arg("info"), Arg("bogus"), BadArg}
Texts == {Arg("hello"), Arg(""), BadArg}

RECURSIVE ExtraArgs(_)
ExtraArgs(n) ==
    IF n = 0 THEN {<<>>}
    ELSE LET shorter == ExtraArgs(n - 1)
         IN  shorter \cup {Append(x, t) : x \in {y \in shorter : Len(y) = n - 1}, t \in Texts}

ArgVectors ==
    {<<>>} \cup {<<p>> : p \in ProgramNames}
      \cup {<<p, v>> \o x : p \in ProgramNames, v \in Verbs, x \in ExtraArgs(MaxExtraArgs)}

\* env::args() panics when an argument is not valid Unicode
args_panics(av) == \E i \in DOMAIN av : ~av[i].unicode
\* env::args().collect()
collect(av) == [i \in DOMAIN av |-> av[i].s]
\* args.get(1).map(|s| s.as_str())
get_verb(a) == IF Len(a) >= 2 THEN Some(a[2]) ELSE None

\* args.get(0).unwrap_or(&default_name)
program_name(a) == IF Len(a) >= 1 THEN a[1] ELSE "speakmcp-rs"

\* exit status of a Rust process whose main thread panicked
PanicExitCode == 101
NotExited == -1

\* main, listen arm: exit(1) on Err, otherwise main returns
listen_exit_code_always_1(r) == 1
listen_exit_code(r) == IF r = Ok THEN 0 ELSE 1
\* main, write arm
write_exit_code_1(r) == IF r = Ok THEN 0 ELSE 1
write_exit_code(r) == IF r = Ok THEN 0 ELSE 101
\* the text handed to write_text: &args[2] of the source
write_arg_last(a) == a[Len(a)]
write_arg(a) == a[3]

\* ------------------------------------------------------------ output streams
Line(m, i, e) == [msg |-> m, info |-> i, err |-> e]
\* {:?} of an error value
debug_err(e) == <<e.kind>> \o e.detail

\* check_macos_accessibility warns on the diagnostic stream
probe_stderr(o) ==
    IF o = "macos"
    THEN << Line("Warning: This application requires Accessibility permissions on macOS.", "", <<>>),
            Line("If keyboard events are not working, please grant permissions in:", "", <<>>),
            Line("System Preferences > Security & Privacy > Privacy > Accessibility", "", <<>>) >>
    ELSE <<>>

show_usage(o, e, name) ==
    << Line("SpeakMCP Rust Platform Helper ({})", get_platform_info(o, e), <<>>),
       Line("Usage: {} [listen|write <text>|info]", "", <<name>>),
       Line("Commands:", "", <<>>),
       Line("  listen       - Listen for keyboard events", "", <<>>),
       Line("  write <text> - Write text using accessibility API", "", <<>>),
       Line("  info         - Show platform information", "", <<>>),
       Line("", "", <<>>),
       Line("Platform-specific notes:", "", <<>>) >>
    \o (CASE o = "macos" -> <<Line("  - Requires Accessibility permissions in System Preferences", "", <<>>)>>
          [] o = "linux" -> <<Line("  - Requires X11 session (Wayland not supported)", "", <<>>)>>
          [] o = "windows" -> <<Line("  - No special requirements", "", <<>>)>>
          [] OTHER -> <<>>)

\* the lines show_platform_info prints on standard output
show_platform_info(o, e) ==
    LET r == check_platform_requirements(o, e)
    IN  <<Line("Platform: {}", get_platform_info(o, e), <<>>)>>
        \o (IF r = Ok THEN <<Line("Status: Ready", "", <<>>)>>
            ELSE <<Line("Status: Not ready - {}", "", fmt(r))>>
                 \o (IF o = "macos" /\ r = AccessibilityDenied
                     THEN <<Line("Resolution: Grant Accessibility permissions in System Preferences > Security & Privacy > Privacy > Accessibility", "", <<>>)>>
                     ELSE <<>>)
                 \o (IF o = "linux" /\ r = WaylandNotSupported
                     THEN <<Line("Resolution: Switch to an X11 session or log out and select X11 at login screen", "", <<>>)>>
                     ELSE <<>>))
        \o (IF o = "linux" /\ var_is_ok(e.DISPLAY)
            THEN <<Line("X11 DISPLAY: {}", "", e.DISPLAY.val)>> ELSE <<>>)
        \o (IF o = "linux" /\ var_is_ok(e.WAYLAND_DISPLAY)
            THEN <<Line("Wayland DISPLAY: {}", "", e.WAYLAND_DISPLAY.val)>> ELSE <<>>)
        \o (IF o = "linux" /\ var_is_ok(e.XDG_SESSION_TYPE)
            THEN <<Line("Session Type: {}", "", e.XDG_SESSION_TYPE.val)>> ELSE <<>>)

Call(f, a) == [fn |-> f, arg |-> a]

\* ------------------------------------------------------------------- state
VARIABLES
    os,          \* the target_os the binary was built for
    env,         \* WAYLAND_DISPLAY, DISPLAY, XDG_SESSION_TYPE of the process
    argv,        \* the command line
    pc,          \* position of the single thread of control
    exit_code,   \* process exit status, NotExited while running
    stdout,      \* lines printed with println!
    stderr,      \* lines printed with eprintln!
    calls,       \* calls made so far: the probe and the capability providers
    probed,      \* value returned by check_platform_requirements
    result,      \* value returned by write_text / listen_for_events
    text,        \* write_text's parameter
    native,      \* events the hook provider has delivered to the closure
    normalized   \* records returned by deal_event_to_json

vars == <<os, env, argv, pc, exit_code, stdout, stderr, calls, probed, result, text, native, normalized>>

NotReturned == [type |-> "none", kind |-> "none", detail |-> NoDetail]

Init ==
    /\ os \in OSes
    \* the environment is read on Linux only
    /\ env \in IF os = "linux" THEN Envs ELSE {NoEnv}
    /\ argv \in ArgVectors
    /\ pc = "main"
    /\ exit_code = NotExited
    /\ stdout = <<>>
    /\ stderr = <<>>
    /\ calls = <<>>
    /\ probed = NotReturned
    /\ result = NotReturned
    /\ text = ""
    /\ native = <<>>
    /\ normalized = <<>>

Exit(code) ==
    /\ pc' = "exited"
    /\ exit_code' = code

\* env::args() panics on an argument that is not valid Unicode (main, line 316)
MainArgsPanic ==
    /\ pc = "main"
    /\ args_panics(argv)
    /\ stderr' = Append(stderr, Line("thread 'main' panicked", "", <<>>))
    /\ Exit(PanicExitCode)
    /\ UNCHANGED <<probed, os, env, argv, stdout, calls, result, text, native, normalized>>

\* main, the `_` arm: unknown or missing verb
MainUsage ==
    /\ pc = "main"
    /\ ~args_panics(argv)
    /\ get_verb(collect(argv)) \notin {Some("listen"), Some("write"), Some("info")}
    /\ stderr' = stderr \o show_usage(os, env, program_name(collect(argv)))
    /\ Exit(1)
    /\ UNCHANGED <<probed, os, env, argv, stdout, calls, result, text, native, normalized>>

\* main, the "info" arm: show_platform_info, then exit(0)
MainInfo ==
    /\ pc = "main"
    /\ ~args_panics(argv)
    /\ get_verb(collect(argv)) = Some("info")
    /\ calls' = Append(calls, Call("check_platform_requirements", ""))
    /\ probed' = check_platform_requirements(os, env)
    /\ stdout' = stdout \o show_platform_info(os, env)
    /\ stderr' = stderr \o probe_stderr(os)
    /\ Exit(0)
    /\ UNCHANGED <<os, env, argv, result, text, native, normalized>>

MainWriteMissingArgFallThrough ==
    /\ pc = "main"
    /\ ~args_panics(argv)
    /\ get_verb(collect(argv)) = Some("write")
    /\ Len(collect(argv)) < 3
    /\ stderr' = stderr \o <<Line("Error: write command requires text argument", "", <<>>)>>
                        \o show_usage(os, env, program_name(collect(argv)))
    /\ text' = ""
    /\ pc' = "write_init"
    /\ UNCHANGED <<probed, os, env, argv, exit_code, stdout, calls, result, native, normalized>>

\* main, the "write" arm with args.len() < 3
MainWriteMissingArg ==
    /\ pc = "main"
    /\ ~args_panics(argv)
    /\ get_verb(collect(argv)) = Some("write")
    /\ Len(collect(argv)) < 3
    /\ stderr' = stderr \o <<Line("Error: write command requires text argument", "", <<>>)>>
                        \o show_usage(os, env, program_name(collect(argv)))
    /\ Exit(1)
    /\ UNCHANGED <<probed, os, env, argv, stdout, calls, result, text, native, normalized>>

\* what main's write arm does with an Err of write_text
WriteFailed(diag, e) ==
    /\ result' = e
    /\ stderr' = stderr \o diag \o <<Line("Write command failed: {}", "", fmt(e))>>
    /\ Exit(write_exit_code(e))

\* main's write arm calls write_text, which runs the probe gate (lines 188-198)
WriteProbeUngated ==
    /\ pc = "main"
    /\ ~args_panics(argv)
    /\ get_verb(collect(argv)) = Some("write")
    /\ Len(collect(argv)) >= 3
    /\ text' = write_arg(collect(argv))
    /\ calls' = Append(calls, Call("check_platform_requirements", ""))
    /\ probed' = check_platform_requirements(os, env)
    /\ pc' = "write_init"
    /\ stderr' = stderr \o probe_stderr(os)
    /\ UNCHANGED <<exit_code, result>>
    /\ UNCHANGED <<os, env, argv, stdout, native, normalized>>

WriteProbe ==
    /\ pc = "main"
    /\ ~args_panics(argv)
    /\ get_verb(collect(argv)) = Some("write")
    /\ Len(collect(argv)) >= 3
    /\ text' = write_arg(collect(argv))
    /\ calls' = Append(calls, Call("check_platform_requirements", ""))
    /\ probed' = check_platform_requirements(os, env)
    /\ LET e == check_platform_requirements(os, env)
       IN  IF e # Ok
           THEN WriteFailed(
                    probe_stderr(os)
                    \o <<Line("Platform error on {} - {}", get_platform_info(os, env), fmt(e))>>
                    \o (IF os = "linux" /\ e = WaylandNotSupported
                        THEN <<Line("Hint: Try running in an X11 session or install X11 compatibility layer", "", <<>>)>>
                        ELSE <<>>),
                    e)
           ELSE /\ pc' = "write_init"
                /\ stderr' = stderr \o probe_stderr(os)
                /\ UNCHANGED <<exit_code, result>>
    /\ UNCHANGED <<os, env, argv, stdout, native, normalized>>

\* Enigo::new(&Settings::default()) and its Err arm (lines 200-214)
WriteInit ==
    /\ pc = "write_init"
    /\ calls' = Append(calls, Call("Enigo::new", ""))
    /\ \E r \in {Ok} \cup {NewConError(d) : d \in ProviderDetails} :
          IF r # Ok
          THEN WriteFailed(
                   <<Line("Failed to create Enigo instance on {}: {}", get_platform_info(os, env), fmt(r))>>
                   \o (CASE os = "macos" -> <<Line("Hint: Ensure Accessibility permissions are granted in System Preferences", "", <<>>)>>
                         [] os = "linux" -> <<Line("Hint: Ensure you're running in an X11 session and have appropriate permissions", "", <<>>)>>
                         [] OTHER -> <<>>),
                   r)
          ELSE /\ pc' = "write_text"
               /\ UNCHANGED <<exit_code, result, stderr>>
    /\ UNCHANGED <<probed, os, env, argv, stdout, text, native, normalized>>

\* enigo.text(text) and main's handling of write_text's result (lines 216-223, 336-344)
WriteInject ==
    /\ pc = "write_text"
    /\ calls' = Append(calls, Call("Enigo::text", text))
    /\ \E r \in {Ok} \cup {InputError(d) : d \in ProviderDetails} :
          IF r # Ok
          THEN WriteFailed(
                   <<Line("Failed to write text on {}: {}", get_platform_info(os, env), fmt(r))>>, r)
          ELSE /\ result' = Ok
               /\ Exit(write_exit_code(Ok))
               /\ UNCHANGED stderr
    /\ UNCHANGED <<probed, os, env, argv, stdout, text, native, normalized>>

\* what main's listen arm does with the value listen_for_events returns
ListenReturned(diag, r) ==
    /\ result' = r
    /\ stderr' = stderr \o diag
                  \o (IF r # Ok
                      THEN <<Line("Listen command failed on {}: {:?}", get_platform_info(os, env), debug_err(r))>>
                      ELSE <<>>)
    /\ Exit(listen_exit_code(r))

\* main's listen arm calls listen_for_events, which runs the probe gate (lines 228-242)
ListenProbe ==
    /\ pc = "main"
    /\ ~args_panics(argv)
    /\ get_verb(collect(argv)) = Some("listen")
    /\ calls' = Append(calls, Call("check_platform_requirements", ""))
    /\ probed' = check_platform_requirements(os, env)
    /\ LET e == check_platform_requirements(os, env)
       IN  IF e # Ok
           THEN ListenReturned(
                    probe_stderr(os)
                    \o <<Line("Cannot start event listener on {} - {}", get_platform_info(os, env), fmt(e))>>
                    \o (IF os = "linux" /\ e = WaylandNotSupported
                        THEN << Line("Hint: Switch to an X11 session to use keyboard monitoring", "", <<>>),
                                Line("You can usually switch at the login screen or install X11 compatibility", "", <<>>) >>
                        ELSE <<>>),
                    e)
           ELSE /\ pc' = "listen"
                /\ stderr' = stderr \o probe_stderr(os)
                       \o <<Line("Starting keyboard event listener on {}", get_platform_info(os, env), <<>>)>>
                /\ UNCHANGED <<exit_code, result>>
    /\ UNCHANGED <<os, env, argv, stdout, text, native, normalized>>

\* rdev::listen(closure) is entered (line 244); it blocks in the provider's loop
ListenSubscribe ==
    /\ pc = "listen"
    /\ calls' = Append(calls, Call("rdev::listen", ""))
    /\ pc' = "listening"
    /\ UNCHANGED <<probed, os, env, argv, exit_code, stdout, stderr, result, text, native, normalized>>

\* the closure, run by the provider for one native event (lines 244-250)
HookCallback ==
    /\ pc = "listening"
    /\ Len(native) < MaxEvents
    /\ \E event \in HookEvents :
          /\ native' = Append(native, event)
          /\ IF forwarded(event.event_type.kind)
             THEN /\ normalized' = Append(normalized, deal_event_to_json(event))
                  /\ stdout' = Append(stdout, Line("{}", "", to_string(deal_event_to_json(event))))
             ELSE UNCHANGED <<normalized, stdout>>
    /\ UNCHANGED <<probed, os, env, argv, pc, exit_code, stderr, calls, result, text>>

\* rdev::listen returns: Err when the subscription or the loop fails, Ok when
\* the provider's loop ends (lines 250-255, 322-327)
HookReturn ==
    /\ pc = "listening"
    /\ \E r \in {Ok} \cup {ListenError(d) : d \in ProviderDetails} :
          IF r # Ok
          THEN ListenReturned(
                   <<Line("Error listening for events: {:?}", "", debug_err(r))>>,
                   ListenErrorString(debug_err(r)))
          ELSE ListenReturned(<<>>, Ok)
    /\ UNCHANGED <<probed, os, env, argv, stdout, calls, text, native, normalized>>

Next ==
    \/ MainArgsPanic
    \/ MainUsage
    \/ MainInfo
    \/ MainWriteMissingArg
    \/ WriteProbe
    \/ WriteInit
    \/ WriteInject
    \/ ListenProbe
    \/ ListenSubscribe
    \/ HookCallback
    \/ HookReturn

Spec == Init /\ [][Next]_vars

\* --------------------------------------------- the normalizer on its own
\* deal_event_to_json applied to every native event shape, including the four
\* kinds the listen closure never hands to it
InitNormalizer ==
    /\ os \in {"linux"}
    /\ env = NoEnv
    /\ argv = <<>>
    /\ pc = "normalizer"
    /\ exit_code = NotExited
    /\ stdout = <<>>
    /\ stderr = <<>>
    /\ calls = <<>>
    /\ probed = NotReturned
    /\ result = NotReturned
    /\ text = ""
    /\ native = <<>>
    /\ normalized = <<>>

Normalize ==
    /\ pc = "normalizer"
    /\ Len(native) < MaxEvents
    /\ \E event \in NativeEvents :
          /\ native' = Append(native, event)
          /\ normalized' = Append(normalized, deal_event_to_json(event))
    /\ UNCHANGED <<probed, os, env, argv, pc, exit_code, stdout, stderr, calls, result, text>>

NextNormalizer == Normalize

SpecNormalizer == InitNormalizer /\ [][NextNormalizer]_vars

\* ===================================================================== claims
verb == IF args_panics(argv) THEN None ELSE get_verb(collect(argv))
Exited == pc = "exited"
CallNames == [i \in DOMAIN calls |-> calls[i].fn]
Called(f) == \E i \in DOMAIN calls : calls[i].fn = f
IsPrefix(s, t) == Len(s) <= Len(t) /\ \A i \in DOMAIN s : s[i] = t[i]

EqualsIgnoreCase(s, t) ==
    Len(s) = Len(t) /\ \A i \in DOMAIN s : UpperChar(s[i]) = UpperChar(t[i])

SessionIsWayland(e) ==
    e.XDG_SESSION_TYPE.state = "unicode" /\ EqualsIgnoreCase(e.XDG_SESSION_TYPE.val, wayland)

\* the classification table of the probe, "set" meaning present in the environment
ClassificationTable(e) ==
    CASE IsSet(e.WAYLAND_DISPLAY) /\ SessionIsWayland(e) -> WaylandNotSupported
      [] ~(IsSet(e.WAYLAND_DISPLAY) /\ SessionIsWayland(e))
           /\ IsSet(e.WAYLAND_DISPLAY) /\ ~IsSet(e.DISPLAY) -> WaylandNotSupported
      [] ~IsSet(e.WAYLAND_DISPLAY) /\ ~IsSet(e.DISPLAY) -> X11NotAvailable
      [] OTHER -> Ok

\* C1: on Linux the probe returns WaylandNotSupported when WAYLAND_DISPLAY is
\* set and XDG_SESSION_TYPE equals "wayland" ignoring case, otherwise
\* WaylandNotSupported when WAYLAND_DISPLAY is set and DISPLAY is absent,
\* otherwise X11NotAvailable when DISPLAY is absent, otherwise success.
C1_ProbeTable ==
    (os = "linux" /\ probed # NotReturned) => probed = ClassificationTable(env)

C3_StepOrder ==
    /\ verb = Some("write") =>
          IsPrefix(CallNames, <<"check_platform_requirements", "Enigo::new", "Enigo::text">>)
    /\ verb = Some("listen") =>
          IsPrefix(CallNames, <<"check_platform_requirements", "rdev::listen">>)
    /\ (verb \in {Some("write"), Some("listen")} /\ probed \notin {Ok, NotReturned}) =>
          /\ Len(calls) = 1
          /\ Exited
    /\ result.type = "enigo::NewConError" => (~Called("Enigo::text") /\ Exited)
    /\ result.type \in {"enigo::InputError", "String"} => Exited

C3_Witness ==
    /\ Exited
    /\ verb = Some("write")
    /\ result.type = "enigo::NewConError"
    /\ CallNames = <<"check_platform_requirements", "Enigo::new">>

\* C4: when write <text> succeeds at the probe, at Enigo::new and at the
\* injection, Enigo::text is called exactly once, with the text argument
\* unchanged, nothing is written to standard output and the exit code is 0.
C4_WriteSuccess ==
    (Exited /\ verb = Some("write") /\ Len(argv) >= 3 /\ result = Ok) =>
        /\ Cardinality({i \in DOMAIN calls : calls[i].fn = "Enigo::text"}) = 1
        /\ \A i \in DOMAIN calls : calls[i].fn = "Enigo::text" => calls[i].arg = argv[3].s
        /\ stdout = <<>>
        /\ exit_code = 0

C4_Witness ==
    /\ Exited
    /\ verb = Some("write")
    /\ result = Ok
    /\ Len(argv) = 4
    /\ argv[3].s = "hello"
    /\ argv[4].s = ""
    /\ Called("Enigo::text")

\* C5: the injection provider is initialized or invoked only by write with a
\* text argument, and the hook provider is subscribed only by listen; info and
\* the usage path call neither.
C5_ProviderConfinement ==
    /\ (Called("Enigo::new") \/ Called("Enigo::text")) =>
          (verb = Some("write") /\ Len(argv) >= 3)
    /\ Called("rdev::listen") => verb = Some("listen")
    /\ (Exited /\ verb = Some("write") /\ Len(argv) < 3) => calls = <<>>

C5_Witness ==
    /\ Exited
    /\ verb = Some("write")
    /\ Len(argv) = 2
    /\ exit_code = 1

\* the records of the KeyPress and KeyRelease events of a sequence, in order
RECURSIVE KeyRecords(_)
KeyRecords(evs) ==
    IF evs = <<>> THEN <<>>
    ELSE LET rest == KeyRecords(Tail(evs))
         IN  IF Head(evs).event_type.kind \in {"KeyPress", "KeyRelease"}
             THEN <<deal_event_to_json(Head(evs))>> \o rest
             ELSE rest

\* C6: in listen, once the probe has passed, standard output holds exactly
\* the serialized normalized records of the KeyPress and KeyRelease events
\* delivered so far, one line each, in the order received; the other four
\* kinds and the diagnostics add nothing to standard output.
C6_ListenOutput ==
    (verb = Some("listen") /\ probed = Ok) =>
        /\ Len(stdout) = Len(KeyRecords(native))
        /\ \A i \in DOMAIN stdout :
              stdout[i] = Line("{}", "", to_string(KeyRecords(native)[i]))

C6_Witness ==
    /\ verb = Some("listen")
    /\ Len(native) = 2
    /\ native[1].event_type.kind = "MouseMove"
    /\ native[2].event_type.kind = "KeyRelease"
    /\ Len(stdout) = 1

\* the payload schema of each event kind, fields as the specification names them
SchemaCamel(kind) ==
    CASE kind \in {"KeyPress", "KeyRelease", "ButtonPress", "ButtonRelease"} -> {"key"}
      [] kind = "MouseMove" -> {"x", "y"}
      [] kind = "Wheel" -> {"deltaX", "deltaY"}

\* the same with the Wheel fields as the wire carries them
SchemaSnake(kind) ==
    CASE kind \in {"KeyPress", "KeyRelease", "ButtonPress", "ButtonRelease"} -> {"key"}
      [] kind = "MouseMove" -> {"x", "y"}
      [] kind = "Wheel" -> {"delta_x", "delta_y"}

\* C7 as stated: the normalizer returns, for each of the six kinds, a record
\* labelled with the input kind whose payload has exactly the fields key
\* (KeyPress, KeyRelease, ButtonPress, ButtonRelease), x and y (MouseMove),
\* deltaX and deltaY (Wheel); it never fails.
C7_Original ==
    pc = "normalizer" =>
        /\ Len(normalized) = Len(native)
        /\ \A i \in DOMAIN normalized :
              /\ normalized[i].event_type = native[i].event_type.kind
              /\ DOMAIN normalized[i].data = SchemaCamel(native[i].event_type.kind)

\* C7 amended: as stated, except that the Wheel payload has the fields
\* delta_x and delta_y.
C7_Schema ==
    pc = "normalizer" =>
        /\ Len(normalized) = Len(native)
        /\ \A i \in DOMAIN normalized :
              /\ normalized[i].event_type = native[i].event_type.kind
              /\ DOMAIN normalized[i].data = SchemaSnake(native[i].event_type.kind)

C7_Witness ==
    /\ pc = "normalizer"
    /\ Len(normalized) = 2
    /\ native[1].event_type.kind = "Wheel"
    /\ native[2].event_type.kind = "KeyRelease"

\* C8: when the probe has passed and Enigo::new fails, write_text returns the
\* PlatformError InitializationFailed carrying the provider's detail, that
\* error is what main renders, and the probe never returns AccessibilityDenied.
C8_Reclassified ==
    /\ probed # AccessibilityDenied
    /\ (Exited /\ verb = Some("write") /\ probed = Ok /\ ~Called("Enigo::text")
          /\ Called("Enigo::new")) =>
          /\ result.type = "PlatformError"
          /\ result.kind = "InitializationFailed"
          /\ result.detail \in ProviderDetails
          /\ stderr[Len(stderr)] = Line("Write command failed: {}", "", fmt(result))

\* the display-server label, "set" meaning present in the environment
LabelTable(e) ==
    IF IsSet(e.WAYLAND_DISPLAY) THEN "Linux (Wayland)"
    ELSE IF IsSet(e.DISPLAY) THEN "Linux (X11)"
    ELSE "Linux (Unknown)"

\* C9: on Linux get_platform_info returns the Linux label with "Wayland" when
\* WAYLAND_DISPLAY is set, otherwise "X11" when DISPLAY is set, otherwise
\* "Unknown", whatever XDG_SESSION_TYPE is and whatever the probe returns.
C9_Label ==
    os = "linux" =>
        /\ \A i \in DOMAIN stdout : stdout[i].info # "" => stdout[i].info = LabelTable(env)
        /\ \A i \in DOMAIN stderr : stderr[i].info # "" => stderr[i].info = LabelTable(env)

\* C10: when listen's probe passes and rdev::listen returns without an error,
\* the process exits 0 and reports no failure; listen exits 1 only when the
\* probe or rdev::listen returned an error.
C10_ListenReturn ==
    (Exited /\ verb = Some("listen")) =>
        /\ (probed = Ok /\ result = Ok) =>
              /\ exit_code = 0
              /\ \A i \in DOMAIN stderr :
                    stderr[i].msg \notin {"Listen command failed on {}: {:?}",
                                          "Error listening for events: {:?}"}
        /\ exit_code = 1 =>
              \/ probed \notin {Ok, NotReturned} /\ result = probed
              \/ probed = Ok /\ result.type = "String" /\ Called("rdev::listen")

C10_Witness ==
    /\ Exited
    /\ verb = Some("listen")
    /\ result = Ok
    /\ Len(native) = 2
    /\ exit_code = 0

====
